---- MODULE Spec2Model ----
(***************************************************************************)
(* A model of genepredictor/app.py: the /predict handler and the helper    *)
(* functions it calls.                                                     *)
(*                                                                         *)
(* The sequence encoder (tokenizer + model) is an external collaborator.   *)
(* It is modelled as an oracle: every call returns some token-embedding    *)
(* matrix of a bounded family, or raises, whatever the sequence is (the    *)
(* deterministic encoder is one of the oracle's behaviours).  Embedding    *)
(* vectors have two integer components; a matrix carries a common positive *)
(* denominator so that means stay exact.  A similarity score is a          *)
(* fixed-point number, an integer count of 1/Scale; NaN scores are not     *)
(* modelled.                                                               *)
(*                                                                         *)
(* predict_sequence is an `async def` without any await: the event loop    *)
(* runs one request to completion before the next one starts, so the model *)
(* has one request in flight, advanced one encoder call at a time.         *)
(***************************************************************************)
EXTENDS Integers, Sequences, FiniteSets, TLC

\* ---------------------------------------------------------------- constants

BASES == <<"A", "T", "C", "G">>

SEQUENCE_LENGTH == 20

PERCENT == 100

\* largest token count of the fully enumerated encoder outputs
MaxTokens == 2

\* similarity scores are integers counting 1/Scale (a tenth of a percent)
Scale == 10 * PERCENT

None == "None"

BaseSet == {BASES[i] : i \in 1..Len(BASES)}

Abs(a) == IF a < 0 THEN -a ELSE a

Min(a, b) == IF a <= b THEN a ELSE b

Max(a, b) == IF a >= b THEN a ELSE b

Rep(n, c) == [i \in 1..n |-> c]

\* ---------------------------------------------------------------- strings

\* str.upper() of one character; "sz" stands for U+00DF, whose upper case is
\* the two characters "SS"
UpperChar(c) ==
    CASE c = "a" -> <<"A">>
      [] c = "t" -> <<"T">>
      [] c = "c" -> <<"C">>
      [] c = "g" -> <<"G">>
      [] c = "n" -> <<"N">>
      [] c = "sz" -> <<"S", "S">>
      [] OTHER -> <<c>>

RECURSIVE upper(_)
upper(s) == IF s = <<>> THEN <<>> ELSE UpperChar(Head(s)) \o upper(Tail(s))

\* the request bodies the model submits
Inputs ==
    { Rep(5, "A"),
      <<"A", "T", "C", "G", "N">>,
      Rep(SEQUENCE_LENGTH, "A"),
      Rep(SEQUENCE_LENGTH, "a"),
      <<"C","T","A","C","T","T","C","A","A","A",
        "T","G","G","G","G","C","T","A","C","A">>,
      Rep(SEQUENCE_LENGTH - 1, "A") \o <<"N">>,
      Rep(SEQUENCE_LENGTH + 1, "A"),
      <<"sz">> \o Rep(SEQUENCE_LENGTH - 1, "A"),
      <<"sz">> \o Rep(SEQUENCE_LENGTH - 2, "A") }

\* ---------------------------------------------------------------- vectors

\* the embedding vectors the encoder draws its rows from
Vec == {<<0, 0>>, <<1, 0>>, <<-1, 0>>, <<0, 1>>}

Zero == <<0, 0>>

Dot(x, y) == x[1] * y[1] + x[2] * y[2]

Add(x, y) == <<x[1] + y[1], x[2] + y[2]>>

RECURSIVE SumRows(_)
SumRows(rows) == IF rows = <<>> THEN Zero ELSE Add(Head(rows), SumRows(Tail(rows)))

\* largest k in lo..hi with k*k <= a
RECURSIVE ISqrtIn(_, _, _)
ISqrtIn(a, lo, hi) ==
    IF lo = hi THEN lo
    ELSE LET mid == (lo + hi + 1) \div 2
         IN  IF mid * mid <= a THEN ISqrtIn(a, mid, hi) ELSE ISqrtIn(a, lo, mid - 1)

\* torch cosine similarity of two vectors, x.y / max(|x||y|, eps), as a
\* fixed-point number: its magnitude is cut to a multiple of 1/Scale
CosineSimilarity(x, y) ==
    LET dot == Dot(x, y)
        nn  == Dot(x, x) * Dot(y, y)
    IN  IF nn = 0 THEN 0
        ELSE LET d2 == dot * dot
                 c1 == (Scale * d2) \div nn
                 r1 == (Scale * d2) % nn
                 q  == Scale * c1 + (Scale * r1) \div nn
                 mag == ISqrtIn(q, 0, Scale)
             IN  IF dot < 0 THEN -mag ELSE mag

\* tensor.mean(dim=0) of a matrix: one vector, the sum of the rows over
\* (row count * denominator)
MeanDim0(m) == [num |-> SumRows(m.rows), den |-> m.den * Len(m.rows)]

\* ---------------------------------------------------------------- encoder

Pattern(n, p, v, w) == [rows |-> [i \in 1..n |-> IF i = p THEN v ELSE w], den |-> 1]

\* token counts of the long outputs: one more token than the string has
\* characters, so that a token index can fall outside the string
LongTokens == SEQUENCE_LENGTH + 1

\* a long output: zero rows except the rows of P, which hold v
LongPattern(P, v) ==
    [rows |-> [i \in 1..LongTokens |-> IF i \in P THEN v ELSE Zero], den |-> 1]

LongRows == {{1}, {LongTokens - 1}, {LongTokens}, {LongTokens - 1, LongTokens}}

EncoderOutputs ==
    UNION { { Pattern(n, p, v, w) : p \in 1..n, v \in Vec, w \in Vec } : n \in 1..MaxTokens }
    \cup { LongPattern(P, v) : P \in LongRows, v \in Vec }

Return(x) == [raised |-> FALSE, value |-> x]

Raise(e) == [raised |-> TRUE, error |-> e]

\* get_token_embeddings: the outcomes of one encoder call
get_token_embeddings(sequence) ==
    { Return(m) : m \in EncoderOutputs } \cup { Raise("encoder failure") }

\* ---------------------------------------------------------------- profile

REFERENCE_SEQUENCES ==
    <<"CTACTTCAAATGGGGCTACA", "AGTCGTACTGCATGCTCGTA", "ATCGCTGACAATGCTGGACA">>

\* emb zero-padded on its tail to max_len rows (torch.cat with torch.zeros)
PadTo(emb, max_len) ==
    [i \in 1..max_len |-> IF i <= Len(emb.rows) THEN emb.rows[i] ELSE Zero]

RECURSIVE MaxSize0(_)
MaxSize0(embeds) ==
    IF embeds = <<>> THEN 0 ELSE Max(Len(Head(embeds).rows), MaxSize0(Tail(embeds)))

RECURSIVE SumAt(_, _)
SumAt(padded, i) ==
    IF padded = <<>> THEN Zero ELSE Add(Head(padded)[i], SumAt(Tail(padded), i))

\* generate_reference_token_embedding, given the encoder's output for each
\* of the sequences: pad every matrix to the longest, stack, mean(dim=0)
generate_reference_token_embedding(sequences, all_token_embeds) ==
    LET max_len == MaxSize0(all_token_embeds)
        padded_embeds == [k \in 1..Len(all_token_embeds) |->
                             PadTo(all_token_embeds[k], max_len)]
    IN  [rows |-> [i \in 1..max_len |-> SumAt(padded_embeds, i)],
         den  |-> Len(sequences)]

\* what the encoder returns for the reference sequences at start-up: the
\* token counts of the three references, each with constant rows (a long
\* one on its last two rows only)
RefVec == <<1, 0>>

RefTokenCounts ==
    { <<1, 1, 1>>, <<1, MaxTokens, MaxTokens>>, <<1, MaxTokens, LongTokens>> }

RefOutput(n, v) ==
    IF n = LongTokens THEN LongPattern({LongTokens - 1, LongTokens}, v)
    ELSE Pattern(n, 1, v, v)

ReferenceEncodings ==
    { [k \in 1..Len(REFERENCE_SEQUENCES) |-> RefOutput(n[k], RefVec)] :
        n \in RefTokenCounts }

\* ---------------------------------------------------------------- helpers

\* torch.argmin of a non-empty list: the index (0-based) of the first
\* minimal value
RECURSIVE ArgminScan(_, _, _)
ArgminScan(s, j, best) ==
    IF j > Len(s) THEN best - 1
    ELSE ArgminScan(s, j + 1, IF s[j] < s[best] THEN j ELSE best)

\* argmin that keeps the last minimal value instead of the first
RECURSIVE ArgminScanLast(_, _, _)
ArgminScanLast(s, j, best) ==
    IF j > Len(s) THEN best - 1
    ELSE ArgminScanLast(s, j + 1, IF s[j] <= s[best] THEN j ELSE best)

argminLast(s) == ArgminScanLast(s, 2, 1)

argmin(s) == ArgminScan(s, 2, 1)

\* find_problematic_position cutting the shared profile itself down to the
\* candidate's token count
find_problematic_position_inplace(token_embeddings, reference_embeddings) ==
    LET n     == Len(token_embeddings.rows)
        slice == SubSeq(reference_embeddings.rows, 1,
                        Min(n, Len(reference_embeddings.rows)))
        similarities ==
            [i \in 1..n |->
                CosineSimilarity(token_embeddings.rows[i],
                                 IF Len(slice) = 1 THEN slice[1] ELSE slice[i])]
        after == [token_embeddings |-> token_embeddings,
                  reference_embeddings |-> [rows |-> slice,
                                            den |-> reference_embeddings.den],
                  reads |-> 0..(Len(slice) - 1)]
    IN  IF Len(slice) # n /\ Len(slice) # 1
        THEN Raise("The size of tensor a must match the size of tensor b") @@ after
        ELSE [raised |-> FALSE, value |-> argmin(similarities),
              similarities |-> similarities] @@ after

\* find_problematic_position comparing against the whole profile, unsliced
find_problematic_position_unsliced(token_embeddings, reference_embeddings) ==
    LET n     == Len(token_embeddings.rows)
        whole == reference_embeddings.rows
        similarities ==
            [i \in 1..Max(n, Len(whole)) |->
                CosineSimilarity(token_embeddings.rows[IF n = 1 THEN 1 ELSE i],
                                 whole[IF Len(whole) = 1 THEN 1 ELSE i])]
        after == [token_embeddings |-> token_embeddings,
                  reference_embeddings |-> reference_embeddings,
                  reads |-> 0..(Len(whole) - 1)]
    IN  IF Len(whole) # n /\ Len(whole) # 1 /\ n # 1
        THEN Raise("The size of tensor a must match the size of tensor b") @@ after
        ELSE [raised |-> FALSE, value |-> argmin(similarities),
              similarities |-> similarities] @@ after

\* find_problematic_position: slice the profile to the candidate's token
\* count, similarity per row (a one-row slice broadcasts), argmin.  The
\* result also reports the two tensors as the call leaves them and the
\* profile rows (0-based) the call read.
find_problematic_position(token_embeddings, reference_embeddings) ==
    LET n     == Len(token_embeddings.rows)
        slice == SubSeq(reference_embeddings.rows, 1,
                        Min(n, Len(reference_embeddings.rows)))
        similarities ==
            [i \in 1..n |->
                CosineSimilarity(token_embeddings.rows[i],
                                 IF Len(slice) = 1 THEN slice[1] ELSE slice[i])]
        after == [token_embeddings |-> token_embeddings,
                  reference_embeddings |-> reference_embeddings,
                  reads |-> 0..(Len(slice) - 1)]
    IN  IF Len(slice) # n /\ Len(slice) # 1
        THEN Raise("The size of tensor a must match the size of tensor b") @@ after
        ELSE [raised |-> FALSE, value |-> argmin(similarities),
              similarities |-> similarities] @@ after

\* lines 150-152 and 139-141: mean-pool the candidate, mean-pool the whole
\* profile, cosine similarity of the two
PooledScore(token_embeds, reference_token_embeddings) ==
    [value |-> CosineSimilarity(MeanDim0(token_embeds).num,
                                MeanDim0(reference_token_embeddings).num),
     reference_token_embeddings |-> reference_token_embeddings,
     reads |-> 0..(Len(reference_token_embeddings.rows) - 1)]

\* get_sequence_score, given the encoder's output for seq
get_sequence_score(token_embeds, reference_token_embeddings) ==
    PooledScore(token_embeds, reference_token_embeddings)

\* the bases choose_best_alternate_base loops over
AlternateBases(original_base) == SelectSeq(BASES, LAMBDA b : b # original_base)

\* one pass of the loop of choose_best_alternate_base, given the score of
\* the mutated sequence
KeepBest(best, base, score) ==
    IF score > best.score THEN [base |-> base, score |-> score] ELSE best

\* the highest score among the mutated sequences tried so far and the first
\* base that reached it (a record of the scores line 141 computed)
TrackFirstMax(tried, base, score) ==
    IF tried.base = None \/ score > tried.score
    THEN [base |-> base, score |-> score]
    ELSE tried

\* seq[:idx] + base + seq[idx + 1:] (Python slices clip to the string)
Substitute(seq, idx, base) ==
    SubSeq(seq, 1, Min(idx, Len(seq))) \o <<base>> \o SubSeq(seq, idx + 2, Len(seq))

\* int(score * 100): truncation toward zero
IntPercent(score) ==
    IF score >= 0 THEN (score * PERCENT) \div Scale
    ELSE -(((-score) * PERCENT) \div Scale)

\* the change indicator with its star one place too far
ChangeIndicatorShifted(index) ==
    LET change_indicator == Rep(SEQUENCE_LENGTH, ".")
    IN  IF index + 1 < Len(change_indicator)
        THEN Substitute(change_indicator, index + 1, "*")
        ELSE change_indicator

\* lines 203-205
ChangeIndicator(index) ==
    LET change_indicator == Rep(SEQUENCE_LENGTH, ".")
    IN  IF index < Len(change_indicator)
        THEN Substitute(change_indicator, index, "*")
        ELSE change_indicator

\* predict_edit if joining a string and None did not raise
predict_edit_unchecked(seq, problem_idx, new_base, edited_score) ==
    Return([edited_seq |-> Substitute(seq, problem_idx, new_base),
            problem_idx |-> problem_idx,
            new_base |-> new_base,
            edited_score |-> edited_score])

\* lines 158-159 of predict_edit: str + None raises TypeError
predict_edit(seq, problem_idx, new_base, edited_score) ==
    IF new_base = None
    THEN Raise("can only concatenate str (not NoneType) to str")
    ELSE Return([edited_seq |-> Substitute(seq, problem_idx, new_base),
                 problem_idx |-> problem_idx,
                 new_base |-> new_base,
                 edited_score |-> edited_score])

JSONResponse(status_code, content) == [status_code |-> status_code, content |-> content]

\* no response yet
Pending == [pending |-> TRUE]

\* Validate without its second check
ValidateLengthOnly(sequence) ==
    IF Len(sequence) # SEQUENCE_LENGTH
    THEN [returned |-> TRUE,
          value |-> JSONResponse(400,
                      [error |-> "Sequence must be exactly 20 characters long"])]
    ELSE [returned |-> FALSE, value |-> Pending]

\* Validate with its two checks in the other order
ValidateAlphabetFirst(sequence) ==
    IF ~(\A i \in 1..Len(sequence) : sequence[i] \in BaseSet)
    THEN [returned |-> TRUE,
          value |-> JSONResponse(400,
                      [error |-> "Sequence must contain only A, T, C, G"])]
    ELSE IF Len(sequence) # SEQUENCE_LENGTH
    THEN [returned |-> TRUE,
          value |-> JSONResponse(400,
                      [error |-> "Sequence must be exactly 20 characters long"])]
    ELSE [returned |-> FALSE, value |-> Pending]

\* lines 183-193: the early return that rejects a request, if any
Validate(sequence) ==
    IF Len(sequence) # SEQUENCE_LENGTH
    THEN [returned |-> TRUE,
          value |-> JSONResponse(400,
                      [error |-> "Sequence must be exactly 20 characters long"])]
    ELSE IF ~(\A i \in 1..Len(sequence) : sequence[i] \in BaseSet)
    THEN [returned |-> TRUE,
          value |-> JSONResponse(400,
                      [error |-> "Sequence must contain only A, T, C, G"])]
    ELSE [returned |-> FALSE, value |-> Pending]

\* lines 199-223: the response to a request whose edit was predicted
Result(sequence, original_score, edit) ==
    LET index == edit.problem_idx
        efficiency == IntPercent(edit.edited_score)
        original_efficiency == IntPercent(original_score)
        message ==
            IF edit.edited_score > original_score
            THEN [text |-> "Editing improves similarity",
                  from |-> original_efficiency, to |-> efficiency]
            ELSE [text |-> "Sequence is already optimal",
                  similarity |-> original_efficiency]
    IN  JSONResponse(200,
          [originalSequence |-> sequence,
           editedSequence |-> edit.edited_seq,
           changeIndicator |-> ChangeIndicator(index),
           efficiency |-> efficiency,
           changedPosition |-> index + 1,
           originalBase |-> sequence[index + 1],
           newBase |-> edit.new_base,
           message |-> message,
           originalEfficiency |-> original_efficiency])

\* ---------------------------------------------------------------- state

VARIABLES
    REFERENCE_EMBEDDINGS,   \* the module-level profile (line 170)
    profileBuilds,          \* runs of generate_reference_token_embedding
    pc,                     \* where the process / the request in flight is
    sequence,               \* predict_sequence: data.sequence.upper()
    original_score,         \* predict_sequence: line 195
    token_embeds,           \* predict_edit: line 155
    problem_idx,            \* predict_edit: line 156
    original_base,          \* choose_best_alternate_base: line 134
    todo,                   \* choose_best_alternate_base: bases still to try
    tried,                  \* history: best of the scores line 141 computed
    best_base,              \* choose_best_alternate_base
    best_score,             \* choose_best_alternate_base
    response,               \* what the request in flight was answered
    encoderCalls,           \* get_token_embeddings calls of this request
    lastCall                \* the profile rows read by the last step

vars == <<REFERENCE_EMBEDDINGS, profileBuilds, pc, sequence, original_score,
          token_embeds, problem_idx, original_base, todo, tried, best_base,
          best_score, response, encoderCalls, lastCall>>

locals == <<sequence, original_score, token_embeds, problem_idx, original_base,
            todo, tried, best_base, best_score>>

NoTry == [base |-> None, score |-> 0]

NoCall == [step |-> None, tokens |-> 0, reads |-> {}]

Init ==
    /\ REFERENCE_EMBEDDINGS = None
    /\ profileBuilds = 0
    /\ pc = "startup"
    /\ sequence = <<>>
    /\ original_score = None
    /\ token_embeds = None
    /\ problem_idx = None
    /\ original_base = None
    /\ todo = <<>>
    /\ tried = NoTry
    /\ best_base = None
    /\ best_score = None
    /\ response = Pending
    /\ encoderCalls = 0
    /\ lastCall = NoCall

\* line 170, at import: one encoder call per reference sequence
Startup ==
    /\ pc = "startup"
    /\ \E all_token_embeds \in ReferenceEncodings :
          REFERENCE_EMBEDDINGS' =
              generate_reference_token_embedding(REFERENCE_SEQUENCES, all_token_embeds)
    /\ profileBuilds' = profileBuilds + 1
    /\ encoderCalls' = Len(REFERENCE_SEQUENCES)
    /\ pc' = "idle"
    /\ UNCHANGED <<locals, response, lastCall>>

\* lines 178-193: a request arrives, is upper-cased and validated
Request ==
    /\ pc = "idle"
    /\ \E body \in Inputs :
          /\ sequence' = upper(body)
          /\ response' = Validate(upper(body)).value
          /\ pc' = IF Validate(upper(body)).returned THEN "idle" ELSE "score"
    /\ original_score' = None
    /\ token_embeds' = None
    /\ problem_idx' = None
    /\ original_base' = None
    /\ todo' = <<>>
    /\ tried' = NoTry
    /\ best_base' = None
    /\ best_score' = None
    /\ encoderCalls' = 0
    /\ lastCall' = NoCall
    /\ UNCHANGED <<REFERENCE_EMBEDDINGS, profileBuilds>>

\* lines 224-229: the handler's except clause
Fail(e) ==
    /\ response' = JSONResponse(500, [error |-> e])
    /\ pc' = "idle"

\* line 195: original_score = get_sequence_score(sequence, REFERENCE_EMBEDDINGS)
Score ==
    /\ pc = "score"
    /\ encoderCalls' = encoderCalls + 1
    /\ \E out \in get_token_embeddings(sequence) :
          IF out.raised
          THEN /\ Fail(out.error)
               /\ UNCHANGED <<REFERENCE_EMBEDDINGS, original_score, lastCall>>
          ELSE LET r == get_sequence_score(out.value, REFERENCE_EMBEDDINGS)
               IN  /\ original_score' = r.value
                   /\ REFERENCE_EMBEDDINGS' = r.reference_token_embeddings
                   /\ lastCall' = [step |-> "get_sequence_score",
                                   tokens |-> Len(out.value.rows), reads |-> r.reads]
                   /\ pc' = "embed"
                   /\ UNCHANGED response
    /\ UNCHANGED <<profileBuilds, sequence, token_embeds, problem_idx,
                   original_base, todo, tried, best_base, best_score>>

\* line 155: token_embeds = get_token_embeddings(seq)
Embed ==
    /\ pc = "embed"
    /\ encoderCalls' = encoderCalls + 1
    /\ \E out \in get_token_embeddings(sequence) :
          IF out.raised
          THEN /\ Fail(out.error)
               /\ UNCHANGED token_embeds
          ELSE /\ token_embeds' = out.value
               /\ pc' = "diagnose"
               /\ UNCHANGED response
    /\ lastCall' = NoCall
    /\ UNCHANGED <<REFERENCE_EMBEDDINGS, profileBuilds, sequence, original_score,
                   problem_idx, original_base, todo, tried, best_base, best_score>>

\* line 156: problem_idx = find_problematic_position(token_embeds, ...)
Diagnose ==
    /\ pc = "diagnose"
    /\ LET r == find_problematic_position(token_embeds, REFERENCE_EMBEDDINGS)
       IN  /\ token_embeds' = r.token_embeddings
           /\ REFERENCE_EMBEDDINGS' = r.reference_embeddings
           /\ lastCall' = [step |-> "find_problematic_position",
                           tokens |-> Len(token_embeds.rows), reads |-> r.reads]
           /\ IF r.raised
              THEN /\ Fail(r.error)
                   /\ UNCHANGED problem_idx
              ELSE /\ problem_idx' = r.value
                   /\ pc' = "search"
                   /\ UNCHANGED response
    /\ UNCHANGED <<profileBuilds, sequence, original_score, original_base,
                   todo, tried, best_base, best_score, encoderCalls>>

\* lines 132-136: choose_best_alternate_base up to its loop; seq[idx] raises
\* IndexError when idx is no index of seq.  token_embeds is not used again.
SearchInit ==
    /\ pc = "search"
    /\ IF problem_idx >= Len(sequence)
       THEN /\ Fail("string index out of range")
            /\ UNCHANGED <<original_base, todo, best_base, best_score>>
       ELSE /\ best_base' = None
            /\ best_score' = -Scale
            /\ original_base' = sequence[problem_idx + 1]
            /\ todo' = AlternateBases(sequence[problem_idx + 1])
            /\ pc' = "loop"
            /\ UNCHANGED response
    /\ token_embeds' = None
    /\ lastCall' = NoCall
    /\ UNCHANGED <<REFERENCE_EMBEDDINGS, profileBuilds, sequence, original_score,
                   problem_idx, tried, encoderCalls>>

\* lines 137-144: one pass of the loop
SearchIter ==
    /\ pc = "loop"
    /\ encoderCalls' = encoderCalls + 1
    /\ LET base == Head(todo)
           new_seq == Substitute(sequence, problem_idx, base)
       IN  \E out \in get_token_embeddings(new_seq) :
             IF out.raised
             THEN /\ Fail(out.error)
                  /\ UNCHANGED <<REFERENCE_EMBEDDINGS, todo, tried, best_base,
                                 best_score, lastCall>>
             ELSE LET r == PooledScore(out.value, REFERENCE_EMBEDDINGS)
                      best == KeepBest([base |-> best_base, score |-> best_score],
                                       base, r.value)
                  IN  /\ best_base' = best.base
                      /\ best_score' = best.score
                      /\ tried' = TrackFirstMax(tried, base, r.value)
                      /\ todo' = Tail(todo)
                      /\ REFERENCE_EMBEDDINGS' = r.reference_token_embeddings
                      /\ lastCall' = [step |-> "choose_best_alternate_base",
                                      tokens |-> Len(out.value.rows), reads |-> r.reads]
                      /\ pc' = IF Tail(todo) = <<>> THEN "assemble" ELSE "loop"
                      /\ UNCHANGED response
    /\ UNCHANGED <<profileBuilds, sequence, original_score, token_embeds,
                   problem_idx, original_base>>

\* lines 146, 158-159 and 199-223: the search returns, predict_edit builds the
\* edited sequence, predict_sequence assembles the response
Assemble ==
    /\ pc = "assemble"
    /\ LET edit == predict_edit(sequence, problem_idx, best_base, best_score)
       IN  IF edit.raised
           THEN Fail(edit.error)
           ELSE /\ response' = Result(sequence, original_score, edit.value)
                /\ pc' = "idle"
    /\ lastCall' = NoCall
    /\ UNCHANGED <<REFERENCE_EMBEDDINGS, profileBuilds, locals, encoderCalls>>

Next ==
    \/ Startup
    \/ Request
    \/ Score
    \/ Embed
    \/ Diagnose
    \/ SearchInit
    \/ SearchIter
    \/ Assemble

Spec == Init /\ [][Next]_vars

\* ---------------------------------------------------------------- vocabulary

IsValidSequence(seq) ==
    /\ Len(seq) = SEQUENCE_LENGTH
    /\ \A i \in 1..Len(seq) : seq[i] \in {"A", "T", "C", "G"}

\* a request has been received and is in flight or answered
Requested == pc # "startup" /\ ~(pc = "idle" /\ response = Pending)

Answered == pc = "idle" /\ response # Pending

IsErrorPayload(r) ==
    /\ DOMAIN r = {"status_code", "content"}
    /\ r.status_code \in {400, 500}
    /\ DOMAIN r.content = {"error"}

ResultFields ==
    {"originalSequence", "editedSequence", "changeIndicator", "efficiency",
     "changedPosition", "originalBase", "newBase", "message", "originalEfficiency"}

\* a response that carries result fields
HasResultFields(r) ==
    /\ DOMAIN r = {"status_code", "content"}
    /\ DOMAIN r.content \cap ResultFields # {}

\* a complete PredictionResult: all nine fields, each one set
IsResult(r) ==
    /\ DOMAIN r = {"status_code", "content"}
    /\ r.status_code = 200
    /\ DOMAIN r.content = ResultFields
    /\ IsValidSequence(r.content.originalSequence)
    /\ IsValidSequence(r.content.editedSequence)
    /\ Len(r.content.changeIndicator) = SEQUENCE_LENGTH
    /\ r.content.efficiency \in Int
    /\ r.content.originalEfficiency \in Int
    /\ r.content.changedPosition \in 1..SEQUENCE_LENGTH
    /\ r.content.originalBase \in BaseSet
    /\ r.content.newBase \in BaseSet
    /\ DOMAIN r.content.message # {}

LengthReason == "Sequence must be exactly 20 characters long"

AlphabetReason == "Sequence must contain only A, T, C, G"

\* ---------------------------------------------------------------- C1

\* C1: a request whose upper-cased sequence is not 20 characters long or
\* holds a symbol outside {A, T, C, G} is answered with an error payload, and
\* the encoder is not called for it: the request is never in flight, and its
\* count of encoder calls is zero when it is answered and stays zero.
C1_RejectedBeforeAnyEmbedding ==
    (Requested /\ ~IsValidSequence(sequence)) =>
        /\ pc = "idle"
        /\ IsErrorPayload(response)
        /\ ~HasResultFields(response)
        /\ encoderCalls = 0

C1_Witness ==
    /\ Answered
    /\ Len(sequence) = SEQUENCE_LENGTH
    /\ \E i \in 1..Len(sequence) : sequence[i] \notin BaseSet
    /\ IsErrorPayload(response)
    /\ encoderCalls = 0

\* ---------------------------------------------------------------- C2

\* C2 as stated: the reason names the rule that was violated; a wrong length
\* is answered with the length reason and a symbol outside the alphabet
\* (as in "ATCGN", of length 5) with the alphabet reason.
C2_ReasonNamesEveryViolatedRule ==
    (Answered /\ ~IsValidSequence(sequence)) =>
        /\ Len(sequence) # SEQUENCE_LENGTH => response.content.error = LengthReason
        /\ (\E i \in 1..Len(sequence) : sequence[i] \notin BaseSet)
              => response.content.error = AlphabetReason

\* C2 amended: the length is checked first.  A wrong length is answered with
\* the length reason whatever the symbols are ("AAAAA" and "ATCGN" alike); the
\* alphabet reason is given exactly to sequences of length 20 that hold a
\* symbol outside the alphabet.
C2_LengthReasonFirst ==
    (Answered /\ ~IsValidSequence(sequence)) =>
        /\ response.status_code = 400
        /\ Len(sequence) # SEQUENCE_LENGTH => response.content.error = LengthReason
        /\ Len(sequence) = SEQUENCE_LENGTH => response.content.error = AlphabetReason

C2_Witness ==
    /\ Answered
    /\ sequence = <<"A", "T", "C", "G", "N">>
    /\ response.content.error = LengthReason

\* ---------------------------------------------------------------- C3

\* C3: when choose_best_alternate_base returns, its symbol is one of
\* A, T, C, G and differs from the symbol the sequence has at the position;
\* it is never 'no symbol'.
C3_SearchReturnsAlternateBase ==
    pc = "assemble" =>
        /\ best_base \in {"A", "T", "C", "G"}
        /\ best_base # original_base

\* ---------------------------------------------------------------- C4

\* the similarity of candidate row i (0-based) to profile row i
RowSimilarity(cand, profile, i) ==
    CosineSimilarity(cand.rows[i + 1], profile.rows[i + 1])

\* C4: on a candidate no longer than the profile, find_problematic_position
\* returns an index of the candidate whose similarity is minimal and which is
\* the smallest index with that similarity, and leaves both inputs as they were.
C4_DiagnoseFirstMinimum ==
    [][ (pc = "diagnose"
           /\ Len(token_embeds.rows) <= Len(REFERENCE_EMBEDDINGS.rows))
        => /\ pc' = "search"
           /\ problem_idx' \in 0..(Len(token_embeds.rows) - 1)
           /\ \A j \in 0..(Len(token_embeds.rows) - 1) :
                 /\ RowSimilarity(token_embeds, REFERENCE_EMBEDDINGS, problem_idx')
                      <= RowSimilarity(token_embeds, REFERENCE_EMBEDDINGS, j)
                 /\ j < problem_idx' =>
                      RowSimilarity(token_embeds, REFERENCE_EMBEDDINGS, problem_idx')
                        < RowSimilarity(token_embeds, REFERENCE_EMBEDDINGS, j)
           /\ token_embeds' = token_embeds
           /\ REFERENCE_EMBEDDINGS' = REFERENCE_EMBEDDINGS ]_vars

\* a diagnosis whose minimum is shared by two positions, neither the first
C4_Witness ==
    /\ pc = "search"
    /\ Len(token_embeds.rows) <= Len(REFERENCE_EMBEDDINGS.rows)
    /\ problem_idx > 0
    /\ \E j \in (problem_idx + 1)..(Len(token_embeds.rows) - 1) :
          RowSimilarity(token_embeds, REFERENCE_EMBEDDINGS, j)
            = RowSimilarity(token_embeds, REFERENCE_EMBEDDINGS, problem_idx)

\* ---------------------------------------------------------------- C5

\* k is score * 100 cut toward zero
IsTruncatedPercent(k, score) ==
    /\ k \in Int
    /\ k * score >= 0
    /\ Abs(k) * Scale <= Abs(score) * PERCENT
    /\ Abs(score) * PERCENT < (Abs(k) + 1) * Scale

\* C5: in a successful response efficiency and originalEfficiency are
\* integers in [0, 100], the truncations of 100 times the edited and the
\* original score.
C5_PercentagesInZeroToHundred ==
    (Answered /\ IsResult(response)) =>
        /\ response.content.efficiency \in 0..PERCENT
        /\ response.content.originalEfficiency \in 0..PERCENT
        /\ IsTruncatedPercent(response.content.efficiency, best_score)
        /\ IsTruncatedPercent(response.content.originalEfficiency, original_score)

\* ---------------------------------------------------------------- C6

\* C6: in a successful response changeIndicator has 20 characters, a '*' at
\* the 0-based edited position, which is changedPosition - 1, and '.'
\* everywhere else.
C6_OneStarAtEditedPosition ==
    (Answered /\ IsResult(response)) =>
        LET ci == response.content.changeIndicator
            k  == response.content.changedPosition
        IN  /\ Len(ci) = SEQUENCE_LENGTH
            /\ k - 1 = problem_idx
            /\ ci[k] = "*"
            /\ \A i \in 1..Len(ci) : i # k => ci[i] = "."
            /\ Cardinality({i \in 1..Len(ci) : ci[i] = "*"}) = 1

\* an edit at the last position of the string
C6_Witness ==
    /\ Answered
    /\ IsResult(response)
    /\ response.content.changedPosition = SEQUENCE_LENGTH
    /\ response.content.changeIndicator[SEQUENCE_LENGTH] = "*"

\* ---------------------------------------------------------------- C7

\* C7: a request ends with a complete result of nine fields or with an error
\* payload without result fields, never both and never a partial result; no
\* response exists while the request is in flight; a request that was
\* accepted and ends without a result ends with the generic error payload.
C7_ResultOrErrorNothingBetween ==
    /\ [](/\ pc \notin {"startup", "idle"} => response = Pending
          /\ Answered =>
               \/ IsResult(response) /\ ~IsErrorPayload(response)
               \/ IsErrorPayload(response) /\ ~HasResultFields(response)
          /\ (Answered /\ IsResult(response)) =>
               /\ problem_idx \in 0..(SEQUENCE_LENGTH - 1)
               /\ best_base \in BaseSet
               /\ response.content.newBase = best_base
               /\ response.content.editedSequence[problem_idx + 1] = best_base)
    /\ [][ (pc \notin {"startup", "idle"} /\ pc' = "idle")
           => \/ IsResult(response')
              \/ /\ IsErrorPayload(response')
                 /\ response'.status_code = 500 ]_vars

\* a search that found no symbol, answered with the generic error payload
C7_Witness ==
    /\ Answered
    /\ IsValidSequence(sequence)
    /\ encoderCalls = 2 + Len(AlternateBases(original_base))
    /\ best_base = None
    /\ IsErrorPayload(response)
    /\ response.status_code = 500

\* ---------------------------------------------------------------- C8

C9_SearchReturnsFirstMaximum ==
    /\ (pc = "loop" /\ tried = NoTry) =>
          todo = SelectSeq(<<"A", "T", "C", "G">>, LAMBDA b : b # original_base)
    /\ pc = "assemble" =>
          /\ best_base = tried.base
          /\ best_score = tried.score

\* ---------------------------------------------------------------- C10

\* C10 as stated: no step reads a profile row whose index is at or beyond
\* the candidate's token count.
C10_NoStepReadsBeyondCandidate ==
    lastCall.step # None => \A i \in lastCall.reads : i < lastCall.tokens

\* C10 amended: the diagnosis reads no profile row at or beyond the
\* candidate's token count; baseline scoring and the substitution search
\* mean-pool the profile and read every one of its rows, whatever the
\* candidate's token count.
C10_OnlyDiagnosisIsBounded ==
    /\ lastCall.step = "find_problematic_position" =>
          \A i \in lastCall.reads : i < lastCall.tokens
    /\ lastCall.step \in {"get_sequence_score", "choose_best_alternate_base"} =>
          lastCall.reads = 0..(Len(REFERENCE_EMBEDDINGS.rows) - 1)

\* a diagnosis of a candidate shorter than the profile
C10_Witness ==
    /\ lastCall.step = "find_problematic_position"
    /\ lastCall.tokens < Len(REFERENCE_EMBEDDINGS.rows)
    /\ lastCall.reads = 0..(lastCall.tokens - 1)

====
